---- MODULE Spec2Model ----
(***************************************************************************)
(* Model of sdk/python/kfp/compiler/_default_transformers.py: the default  *)
(* op transformers of the KFP compiler (add_pod_env, add_pod_labels,       *)
(* add_name_for_oob_components).                                           *)
(*                                                                         *)
(* A Python str is a sequence of one-character strings.  A dict of pod     *)
(* labels is a function from keys (atomic strings) to str values.  The     *)
(* `labels` argument of add_pod_labels is the sequence of its items() in   *)
(* dict order.  An Optional value is a record with an isNone flag.         *)
(***************************************************************************)
EXTENDS Integers, Sequences, FiniteSets, TLC

VARIABLES task, twin, labels, raised, hist, twin_hist

vars == <<task, twin, labels, raised, hist, twin_hist>>

(***************************************************************************)
(* Bounds of the model.                                                    *)
(***************************************************************************)
\* Number of transformer applications to one task in a behaviour.
MaxSteps == 3
\* Number of pieces concatenated after a URL base.
MaxTailParts == 3

(***************************************************************************)
(* Module constants of the source.                                         *)
(***************************************************************************)
_SDK_ENV_LABEL == "pipelines.kubeflow.org/pipeline-sdk-type"

_SDK_ENV_DEFAULT == <<"k", "f", "p">>

_OOB_COMPONENT_PATH_PREFIX == <<"h", "t", "t", "p", "s", ":", "/", "/", "r", "a", "w", ".", "g", "i", "t", "h", "u", "b", "u", "s", "e", "r", "c", "o", "n", "t", "e", "n", "t", ".", "c", "o", "m", "/", "k", "u", "b", "e", "f", "l", "o", "w", "/", "p", "i", "p", "e", "l", "i", "n", "e", "s">>

COMPONENT_PATH_LABEL_KEY == "pipelines.kubeflow.org/component_origin_path"

COMPONENT_DIGEST_LABEL_KEY == "pipelines.kubeflow.org/component_digest"

\* The literal 'component.yaml' of line 103.
ComponentYaml == <<"c", "o", "m", "p", "o", "n", "e", "n", "t", ".", "y", "a", "m", "l">>

\* The literal 'true' of line 47.
TrueText == <<"t", "r", "u", "e">>

\* The characters the pattern '[^-a-z0-9A-Z_.]' of line 110 does not match.
SafeChars == {"a", "b", "c", "d", "e", "f", "g", "h", "i", "j", "k", "l", "m", "n", "o", "p", "q", "r", "s", "t", "u", "v", "w", "x", "y", "z", "0", "1", "2", "3", "4", "5", "6", "7", "8", "9", "A", "B", "C", "D", "E", "F", "G", "H", "I", "J", "K", "L", "M", "N", "O", "P", "Q", "R", "S", "T", "U", "V", "W", "X", "Y", "Z", "-", "_", "."}

\* The characters of strip('-_.') of line 111.
BoundaryChars == {"-", "_", "."}

(***************************************************************************)
(* Python str operations used by the source.                               *)
(***************************************************************************)
\* string.endswith(suffix)
endswith(string, suffix) ==
    /\ Len(suffix) <= Len(string)
    /\ SubSeq(string, Len(string) - Len(suffix) + 1, Len(string)) = suffix

\* string.startswith(prefix)
startswith(string, prefix) ==
    /\ Len(prefix) <= Len(string)
    /\ SubSeq(string, 1, Len(prefix)) = prefix

\* string.rstrip(chars)
RECURSIVE rstrip(_, _)
rstrip(string, chars) ==
    IF Len(string) > 0 /\ string[Len(string)] \in chars
    THEN rstrip(SubSeq(string, 1, Len(string) - 1), chars)
    ELSE string

\* string.lstrip(chars)
RECURSIVE lstrip(_, _)
lstrip(string, chars) ==
    IF Len(string) > 0 /\ string[1] \in chars
    THEN lstrip(SubSeq(string, 2, Len(string)), chars)
    ELSE string

\* string.strip(chars)
strip(string, chars) == lstrip(rstrip(string, chars), chars)

\* Index of the first occurrence of the character sep in string, 0 if none.
find(string, sep) ==
    IF \E i \in 1..Len(string) : string[i] = sep
    THEN CHOOSE i \in 1..Len(string) :
            /\ string[i] = sep
            /\ \A j \in 1..(i - 1) : string[j] # sep
    ELSE 0

\* string.split(sep, maxsplit) for a one-character sep: the list of fields.
RECURSIVE split(_, _, _)
split(string, sep, maxsplit) ==
    IF maxsplit = 0 \/ find(string, sep) = 0
    THEN <<string>>
    ELSE LET i == find(string, sep)
         IN  <<SubSeq(string, 1, i - 1)>>
                 \o split(SubSeq(string, i + 1, Len(string)), sep, maxsplit - 1)

\* re.sub('[^...]', repl, string) for a negated character class: every
\* character outside `allowed` is replaced by repl.
re_sub(allowed, repl, string) ==
    [i \in 1..Len(string) |-> IF string[i] \in allowed THEN string[i] ELSE repl]

\* string[-n:]
last_chars(string, n) ==
    IF Len(string) <= n THEN string
    ELSE SubSeq(string, Len(string) - n + 1, Len(string))

\* string[:n]
first_chars(string, n) ==
    IF Len(string) <= n THEN string ELSE SubSeq(string, 1, n)

\* Truth value of an Optional[str]: None and '' are false.
truthy(opt) == ~opt.isNone /\ Len(opt.s) > 0

(***************************************************************************)
(* Values of the task object (kfp.dsl BaseOp / ContainerOp).               *)
(***************************************************************************)
\* Optional[str]
NoneText == [isNone |-> TRUE, s |-> <<>>]

SomeText(s) == [isNone |-> FALSE, s |-> s]

\* task._component_ref: absent or None, or an object with url and digest.
NoneRef == [isNone |-> TRUE, url |-> NoneText, digest |-> NoneText]

ComponentRef(url, digest) == [isNone |-> FALSE, url |-> url, digest |-> digest]

\* The labels argument of add_pod_labels: None (its default) or a dict.
NoneLabels == [isNone |-> TRUE, items |-> <<>>]

SomeLabels(items) == [isNone |-> FALSE, items |-> items]

\* The dict {}.
EmptyDict == [k \in {} |-> <<>>]

\* Keys of a dict given by its items().
Keys(items) == {items[i].k : i \in 1..Len(items)}

\* BaseOp.add_pod_label(name, value): self.pod_labels[name] = value.
add_pod_label(op, name, value) ==
    [op EXCEPT !.pod_labels = (name :> value) @@ @]

\* Container.add_env_variable(env_variable): appends to the env list.
add_env_variable(op, env_variable) ==
    [op EXCEPT !.env = Append(@, env_variable)]

\* k8s_client.V1EnvVar(name, value_from=V1EnvVarSource(field_ref=
\* V1ObjectFieldSelector(field_path))).
V1EnvVar(name, field_path) == [name |-> name, field_path |-> field_path]

(***************************************************************************)
(* The functions of the source.                                            *)
(***************************************************************************)
get_default_telemetry_labels ==
    <<[k |-> _SDK_ENV_LABEL, v |-> _SDK_ENV_DEFAULT]>>

\* add_pod_env with the test of the label's value dropped.
add_pod_env_any_value(op) ==
    IF /\ op.kind = "ContainerOp"
       /\ "add-pod-env" \in DOMAIN op.pod_labels
    THEN add_env_variable(
             add_env_variable(op, V1EnvVar("KFP_POD_NAME", "metadata.name")),
             V1EnvVar("KFP_NAMESPACE", "metadata.namespace"))
    ELSE op

add_pod_env(op) ==
    IF /\ op.kind = "ContainerOp"
       /\ DOMAIN op.pod_labels # {}
       /\ "add-pod-env" \in DOMAIN op.pod_labels
       /\ op.pod_labels["add-pod-env"] = TrueText
    THEN add_env_variable(
             add_env_variable(op, V1EnvVar("KFP_POD_NAME", "metadata.name")),
             V1EnvVar("KFP_NAMESPACE", "metadata.namespace"))
    ELSE op

\* The loop of _add_pod_labels with the test `k not in task.pod_labels`
\* dropped: every configured label is written.
RECURSIVE _add_pod_labels_loop_update(_, _)
_add_pod_labels_loop_update(items, t) ==
    IF Len(items) = 0 THEN t
    ELSE _add_pod_labels_loop_update(
             Tail(items), add_pod_label(t, Head(items).k, Head(items).v))

\* The loop of _add_pod_labels leaving the loop after the first label added.
RECURSIVE _add_pod_labels_loop_first(_, _)
_add_pod_labels_loop_first(items, t) ==
    IF Len(items) = 0 THEN t
    ELSE IF Head(items).k \notin DOMAIN t.pod_labels
         THEN add_pod_label(t, Head(items).k, Head(items).v)
         ELSE _add_pod_labels_loop_first(Tail(items), t)

\* The loop of _add_pod_labels with the test inverted to
\* `k in task.pod_labels`.
RECURSIVE _add_pod_labels_loop_inverted(_, _)
_add_pod_labels_loop_inverted(items, t) ==
    IF Len(items) = 0 THEN t
    ELSE _add_pod_labels_loop_inverted(
             Tail(items),
             IF Head(items).k \in DOMAIN t.pod_labels
             THEN add_pod_label(t, Head(items).k, Head(items).v)
             ELSE t)

\* for k, v in labels.items(): if k not in task.pod_labels: add it.
RECURSIVE _add_pod_labels_loop(_, _)
_add_pod_labels_loop(items, t) ==
    IF Len(items) = 0 THEN t
    ELSE _add_pod_labels_loop(
             Tail(items),
             IF Head(items).k \notin DOMAIN t.pod_labels
             THEN add_pod_label(t, Head(items).k, Head(items).v)
             ELSE t)

\* The transformer returned by add_pod_labels(lbls), applied to t.
\* labels.items() raises AttributeError when labels is None.
_add_pod_labels(lbls, t) ==
    IF lbls.isNone
    THEN [raised |-> TRUE, task |-> t]
    ELSE [raised |-> FALSE, task |-> _add_pod_labels_loop(lbls.items, t)]

_remove_suffix(string, suffix) ==
    IF Len(suffix) > 0 /\ endswith(string, suffix)
    THEN SubSeq(string, 1, Len(string) - Len(suffix))
    ELSE string

\* origin_path of lines 102-103.
origin_path_of(url) == rstrip(_remove_suffix(url, ComponentYaml), {"/"})

\* Line 106 splitting one field further.
oob_subpath_split8(origin_path) ==
    LET fields == split(origin_path, "/", 8) IN fields[Len(fields)]

\* origin_path.split('/', 7)[-1] of line 106.
oob_subpath(origin_path) ==
    LET fields == split(origin_path, "/", 7) IN fields[Len(fields)]

\* Lines 110-111 with the boundary strip done before the truncation.
origin_path_label_strip_first(origin_path) ==
    last_chars(strip(re_sub(SafeChars, ".", origin_path), BoundaryChars), 63)

\* Lines 110-111: sanitise, keep the last 63 characters, strip '-_.'.
origin_path_label(origin_path) ==
    strip(last_chars(re_sub(SafeChars, ".", origin_path), 63), BoundaryChars)

\* Line 116 keeping the whole digest.
digest_label_whole(digest) == digest

\* component_ref.digest[:63] of line 116.
digest_label(digest) == first_chars(digest, 63)

\* _add_name_for_oob_components without the early return of line 108.
_add_name_for_oob_components_no_return(t) ==
    LET component_ref == t._component_ref
        origin_path == origin_path_of(component_ref.url.s)
        trusted == startswith(origin_path, _OOB_COMPONENT_PATH_PREFIX)
        t1 == IF truthy(component_ref.url) /\ trusted
              THEN add_pod_label(t, COMPONENT_PATH_LABEL_KEY,
                       origin_path_label(oob_subpath(origin_path)))
              ELSE t
    IN  IF component_ref.isNone THEN t
        ELSE IF truthy(component_ref.digest)
             THEN add_pod_label(t1, COMPONENT_DIGEST_LABEL_KEY,
                      digest_label(component_ref.digest.s))
             ELSE t1

\* The transformer returned by add_name_for_oob_components(), applied to t.
_add_name_for_oob_components(t) ==
    LET component_ref == t._component_ref
        origin_path == origin_path_of(component_ref.url.s)
        t1 == IF truthy(component_ref.url)
              THEN add_pod_label(t, COMPONENT_PATH_LABEL_KEY,
                       origin_path_label(oob_subpath(origin_path)))
              ELSE t
    IN  IF component_ref.isNone THEN t
        ELSE IF /\ truthy(component_ref.url)
                /\ ~startswith(origin_path, _OOB_COMPONENT_PATH_PREFIX)
             THEN t
             ELSE IF truthy(component_ref.digest)
                  THEN add_pod_label(t1, COMPONENT_DIGEST_LABEL_KEY,
                           digest_label(component_ref.digest.s))
                  ELSE t1

(***************************************************************************)
(* Inputs.                                                                 *)
(***************************************************************************)
\* The string of n copies of the character c.
Rep(c, n) == [i \in 1..n |-> c]

RECURSIVE Concat(_)
Concat(parts) ==
    IF Len(parts) = 0 THEN <<>> ELSE Head(parts) \o Concat(Tail(parts))

\* 'https://raw.githubusercontent.com/kubeflow/pipelines/master/components/'
CatalogBase == _OOB_COMPONENT_PATH_PREFIX \o <<"/", "m", "a", "s", "t", "e", "r", "/", "c", "o", "m", "p", "o", "n", "e", "n", "t", "s", "/">>

\* 'https://raw.githubusercontent.com/kubeflow/pipelines-fork/'
ForkBase == _OOB_COMPONENT_PATH_PREFIX \o <<"-", "f", "o", "r", "k", "/">>

\* 'https://example.com/x/'
ExampleBase == <<"h", "t", "t", "p", "s", ":", "/", "/", "e", "x", "a", "m", "p", "l", "e", ".", "c", "o", "m", "/", "x", "/">>

UrlBases == {CatalogBase, _OOB_COMPONENT_PATH_PREFIX, ForkBase, ExampleBase}

\* 'foo/bar'
FooBar == <<"f", "o", "o", "/", "b", "a", "r">>

\* 'foo bar!'
FooBarBang == <<"f", "o", "o", " ", "b", "a", "r", "!">>

UrlPieces ==
    {FooBar, <<"/">>, ComponentYaml, FooBarBang, <<"-", "_", ".">>, Rep("x", 62)}

UrlTails ==
    {Concat(parts) : parts \in UNION {[1..n -> UrlPieces] : n \in 0..MaxTailParts}}

Urls == {base \o tail : base \in UrlBases, tail \in UrlTails}

\* '.../master/components/foo/bar/component.yaml'
FooBarUrl == CatalogBase \o FooBar \o <<"/">> \o ComponentYaml

\* 'https://example.com/x/component.yaml'
ExampleUrl == ExampleBase \o ComponentYaml

\* 'abcdef0123456789'.ljust(70, '0')
Digest70 == <<"a", "b", "c", "d", "e", "f", "0", "1", "2", "3", "4", "5", "6", "7", "8", "9">> \o Rep("0", 54)

Digests ==
    {NoneText, SomeText(<<>>), SomeText(<<"a", "b", "c">>),
     SomeText(<<"s", "h", "a", ":", " ", "!">>),
     SomeText(Rep("f", 63)), SomeText(Rep("f", 64)), SomeText(Digest70)}

\* Component references of the tasks the origin-derived injector is
\* explored on.
OriginRefs ==
    {NoneRef} \cup
    {ComponentRef(url, digest) :
        url \in {NoneText, SomeText(<<>>)} \cup {SomeText(u) : u \in Urls},
        digest \in Digests}

\* Component references of the tasks sequences of transformers are
\* explored on.
TaskRefs ==
    {NoneRef,
     ComponentRef(SomeText(<<>>), SomeText(<<>>)),
     ComponentRef(NoneText, SomeText(<<"a", "b", "c">>)),
     ComponentRef(SomeText(FooBarUrl), SomeText(Digest70)),
     ComponentRef(SomeText(FooBarUrl), NoneText),
     ComponentRef(SomeText(ExampleUrl), SomeText(<<"a", "b", "c">>))}

\* Initial pod_labels of a task.
TaskLabels ==
    {EmptyDict,
     "a" :> <<"9">>,
     "add-pod-env" :> TrueText,
     ("add-pod-env" :> <<"f", "a", "l", "s", "e">>) @@ ("a" :> <<"9">>),
     (COMPONENT_PATH_LABEL_KEY :> <<"o", "l", "d">>)
         @@ (COMPONENT_DIGEST_LABEL_KEY :> <<"o", "l", "d">>)}

\* Arguments given to add_pod_labels.
LabelDicts ==
    {SomeLabels(<<>>),
     SomeLabels(<<[k |-> "a", v |-> <<"1">>], [k |-> "b", v |-> <<"2">>]>>),
     SomeLabels(get_default_telemetry_labels),
     SomeLabels(<<[k |-> COMPONENT_PATH_LABEL_KEY, v |-> <<"x">>],
                  [k |-> COMPONENT_DIGEST_LABEL_KEY, v |-> <<"y">>],
                  [k |-> "add-pod-env", v |-> TrueText]>>)}

LabelArgs == {NoneLabels} \cup LabelDicts

\* A task as constructed: a ContainerOp has a container with no env yet.
NewTask(kind, pod_labels, ref) ==
    [kind |-> kind, pod_labels |-> pod_labels, env |-> <<>>,
     _component_ref |-> ref]

\* A record of one transformer application: the transformer, the labels
\* argument of its factory, and the task before the call.
Call(op, arg, pre) == [op |-> op, arg |-> arg, pre |-> pre]

(***************************************************************************)
(* Sequences of transformers applied to one task.                          *)
(***************************************************************************)
Init ==
    /\ \E kind \in {"ContainerOp", "ResourceOp"}, pl \in TaskLabels,
          ref \in TaskRefs : task = NewTask(kind, pl, ref)
    /\ twin = task
    /\ labels = NoneLabels
    /\ raised = FALSE
    /\ hist = <<>>
    /\ twin_hist = <<>>

\* add_pod_env(task)
ApplyPodEnv ==
    /\ ~raised
    /\ Len(hist) < MaxSteps
    /\ task' = add_pod_env(task)
    /\ hist' = Append(hist, Call("add_pod_env", labels, task))
    /\ UNCHANGED <<twin, labels, raised, twin_hist>>

\* add_pod_labels(arg)(task)
ApplyPodLabels ==
    /\ ~raised
    /\ Len(hist) < MaxSteps
    /\ \E arg \in LabelArgs :
          /\ labels' = arg
          /\ task' = _add_pod_labels(arg, task).task
          /\ raised' = _add_pod_labels(arg, task).raised
          /\ hist' = Append(hist, Call("add_pod_labels", arg, task))
    /\ UNCHANGED <<twin, twin_hist>>

\* add_name_for_oob_components()(task)
ApplyOobName ==
    /\ ~raised
    /\ Len(hist) < MaxSteps
    /\ task' = _add_name_for_oob_components(task)
    /\ hist' = Append(hist, Call("add_name_for_oob_components", labels, task))
    /\ UNCHANGED <<twin, labels, raised, twin_hist>>

Next == ApplyPodEnv \/ ApplyPodLabels \/ ApplyOobName

Spec == Init /\ [][Next]_vars

(***************************************************************************)
(* The origin-derived injector over component URLs and digests.            *)
(***************************************************************************)
InitOrigin ==
    /\ \E pl \in {EmptyDict, "a" :> <<"9">>}, ref \in OriginRefs :
          task = NewTask("ContainerOp", pl, ref)
    /\ twin = task
    /\ labels = NoneLabels
    /\ raised = FALSE
    /\ hist = <<>>
    /\ twin_hist = <<>>

NextOrigin == ApplyOobName

SpecOrigin == InitOrigin /\ [][NextOrigin]_vars

(***************************************************************************)
(* Two equal tasks given the static and the origin-derived injector in     *)
(* opposite orders.                                                        *)
(***************************************************************************)
InitOrders ==
    /\ \E kind \in {"ContainerOp", "ResourceOp"}, pl \in TaskLabels,
          ref \in TaskRefs : task = NewTask(kind, pl, ref)
    /\ twin = task
    /\ labels \in LabelDicts
    /\ raised = FALSE
    /\ hist = <<>>
    /\ twin_hist = <<>>

\* task: the static injector first.
TaskPodLabels ==
    /\ Len(hist) = 0
    /\ task' = _add_pod_labels(labels, task).task
    /\ hist' = Append(hist, Call("add_pod_labels", labels, task))
    /\ UNCHANGED <<twin, labels, raised, twin_hist>>

\* task: the origin-derived injector second.
TaskOobName ==
    /\ Len(hist) = 1
    /\ task' = _add_name_for_oob_components(task)
    /\ hist' = Append(hist, Call("add_name_for_oob_components", labels, task))
    /\ UNCHANGED <<twin, labels, raised, twin_hist>>

\* twin: the origin-derived injector first.
TwinOobName ==
    /\ Len(twin_hist) = 0
    /\ twin' = _add_name_for_oob_components(twin)
    /\ twin_hist' =
           Append(twin_hist, Call("add_name_for_oob_components", labels, twin))
    /\ UNCHANGED <<task, labels, raised, hist>>

\* twin: the static injector second.
TwinPodLabels ==
    /\ Len(twin_hist) = 1
    /\ twin' = _add_pod_labels(labels, twin).task
    /\ twin_hist' = Append(twin_hist, Call("add_pod_labels", labels, twin))
    /\ UNCHANGED <<task, labels, raised, hist>>

NextOrders == TaskPodLabels \/ TaskOobName \/ TwinOobName \/ TwinPodLabels

SpecOrders == InitOrders /\ [][NextOrders]_vars

(***************************************************************************)
(* Properties.                                                             *)
(***************************************************************************)
\* The most recent transformer application to task.
Last == hist[Len(hist)]

\* The condition of line 105 on a component URL.
Trusted(url) == startswith(origin_path_of(url), _OOB_COMPONENT_PATH_PREFIX)

\* The most recent application was the origin-derived injector on a task
\* that has a component_ref.
OobApplied ==
    /\ Len(hist) > 0
    /\ Last.op = "add_name_for_oob_components"
    /\ ~Last.pre._component_ref.isNone

\* The most recent application was the static injector built from a dict.
PodLabelsApplied ==
    /\ Len(hist) > 0
    /\ Last.op = "add_pod_labels"
    /\ ~Last.arg.isNone

\* C1: the transformer returned by add_pod_labels(L) leaves the value of
\* every key already in task.pod_labels untouched, adds every absent key of
\* L with L's value, and adds no other key.
C1_AdditiveOnly ==
    PodLabelsApplied =>
        LET pre == Last.pre.pod_labels
            post == task.pod_labels
            L == Last.arg.items
        IN  /\ \A k \in DOMAIN pre : k \in DOMAIN post /\ post[k] = pre[k]
            /\ \A i \in 1..Len(L) :
                  L[i].k \notin DOMAIN pre =>
                      L[i].k \in DOMAIN post /\ post[L[i].k] = L[i].v
            /\ DOMAIN post = DOMAIN pre \cup Keys(L)

\* Config {a:1, b:2} applied to labels {a:9} has given {a:9, b:2}.
C1_Witness ==
    /\ PodLabelsApplied
    /\ Last.arg.items = <<[k |-> "a", v |-> <<"1">>], [k |-> "b", v |-> <<"2">>]>>
    /\ Last.pre.pod_labels = ("a" :> <<"9">>)
    /\ task.pod_labels = ("a" :> <<"9">>) @@ ("b" :> <<"2">>)

\* C2: on a task whose component_ref.url is present and does not match the
\* trusted prefix, the origin-derived injector leaves pod_labels unchanged,
\* also when component_ref.digest is present.
C2_UntrustedUrlNoLabels ==
    (/\ OobApplied
     /\ truthy(Last.pre._component_ref.url)
     /\ ~Trusted(Last.pre._component_ref.url.s))
        => /\ task.pod_labels = Last.pre.pod_labels
           /\ task = Last.pre

\* The injector has run on 'https://example.com/x/component.yaml' with a
\* digest present.
C2_Witness ==
    /\ OobApplied
    /\ Last.pre._component_ref.url = SomeText(ExampleUrl)
    /\ truthy(Last.pre._component_ref.digest)
    /\ COMPONENT_DIGEST_LABEL_KEY \notin DOMAIN task.pod_labels

\* C3 as stated: for the URL '.../master/components/foo/bar/component.yaml'
\* the origin-derived injector sets component_origin_path to 'bar'.
C3_OriginLabelIsBar ==
    (OobApplied /\ Last.pre._component_ref.url = SomeText(FooBarUrl))
        => /\ COMPONENT_PATH_LABEL_KEY \in DOMAIN task.pod_labels
           /\ task.pod_labels[COMPONENT_PATH_LABEL_KEY] = <<"b", "a", "r">>

\* C3 amended: for the URL '.../master/components/foo/bar/component.yaml'
\* the origin-derived injector sets component_origin_path to 'foo.bar': the
\* eighth field of the split is 'foo/bar', whose '/' is sanitised to '.'.
C3_OriginLabelIsFooBar ==
    (OobApplied /\ Last.pre._component_ref.url = SomeText(FooBarUrl))
        => /\ COMPONENT_PATH_LABEL_KEY \in DOMAIN task.pod_labels
           /\ task.pod_labels[COMPONENT_PATH_LABEL_KEY] = <<"f", "o", "o", ".", "b", "a", "r">>

\* The injector has run on that URL and set the origin label.
C3_Witness ==
    /\ OobApplied
    /\ Last.pre._component_ref.url = SomeText(FooBarUrl)
    /\ COMPONENT_PATH_LABEL_KEY \notin DOMAIN Last.pre.pod_labels
    /\ COMPONENT_PATH_LABEL_KEY \in DOMAIN task.pod_labels

\* C4: when component_ref.digest is present and component_ref.url is absent
\* or trusted, the origin-derived injector sets component_digest to exactly
\* the first 63 characters of the digest, unsanitised.
C4_DigestFirst63 ==
    (/\ OobApplied
     /\ truthy(Last.pre._component_ref.digest)
     /\ \/ ~truthy(Last.pre._component_ref.url)
        \/ Trusted(Last.pre._component_ref.url.s))
        => /\ COMPONENT_DIGEST_LABEL_KEY \in DOMAIN task.pod_labels
           /\ LET d == Last.pre._component_ref.digest.s
                  v == task.pod_labels[COMPONENT_DIGEST_LABEL_KEY]
              IN  /\ Len(v) = (IF Len(d) < 63 THEN Len(d) ELSE 63)
                  /\ \A i \in 1..Len(v) : v[i] = d[i]

\* The 70-character digest has been stored as its first 63 characters.
C4_Witness ==
    /\ OobApplied
    /\ Last.pre._component_ref.digest = SomeText(Digest70)
    /\ COMPONENT_DIGEST_LABEL_KEY \in DOMAIN task.pod_labels
    /\ Len(task.pod_labels[COMPONENT_DIGEST_LABEL_KEY]) = 63

\* C5: add_pod_env on a ContainerOp labelled add-pod-env='true' appends
\* KFP_POD_NAME (metadata.name) then KFP_NAMESPACE (metadata.namespace),
\* each once; on any other task it returns the task unchanged.
C5_PodEnv ==
    (Len(hist) > 0 /\ Last.op = "add_pod_env") =>
        LET pre == Last.pre IN
        IF /\ pre.kind = "ContainerOp"
           /\ "add-pod-env" \in DOMAIN pre.pod_labels
           /\ pre.pod_labels["add-pod-env"] = TrueText
        THEN /\ task.env = pre.env \o
                    <<[name |-> "KFP_POD_NAME", field_path |-> "metadata.name"],
                      [name |-> "KFP_NAMESPACE",
                       field_path |-> "metadata.namespace"]>>
             /\ task.pod_labels = pre.pod_labels
        ELSE task = pre

\* add_pod_env has attached the two variables to a flagged ContainerOp.
C5_Witness ==
    /\ Len(hist) > 0
    /\ Last.op = "add_pod_env"
    /\ Last.pre.kind = "ContainerOp"
    /\ "add-pod-env" \in DOMAIN Last.pre.pod_labels
    /\ Last.pre.pod_labels["add-pod-env"] = TrueText
    /\ Len(task.env) = Len(Last.pre.env) + 2

\* C6: for every trusted component URL the stored component_origin_path has
\* length at most 63, only characters of [-a-zA-Z0-9_.], and neither starts
\* nor ends with '-', '_' or '.'.
C6_OriginLabelSyntax ==
    (/\ OobApplied
     /\ truthy(Last.pre._component_ref.url)
     /\ Trusted(Last.pre._component_ref.url.s))
        => /\ COMPONENT_PATH_LABEL_KEY \in DOMAIN task.pod_labels
           /\ LET v == task.pod_labels[COMPONENT_PATH_LABEL_KEY]
              IN  /\ Len(v) <= 63
                  /\ \A i \in 1..Len(v) : v[i] \in SafeChars
                  /\ Len(v) > 0 =>
                        /\ v[1] \notin {"-", "_", "."}
                        /\ v[Len(v)] \notin {"-", "_", "."}

\* A sub-path longer than 63 characters has been truncated and then lost a
\* boundary character, leaving fewer than 63.
C6_Witness ==
    /\ OobApplied
    /\ truthy(Last.pre._component_ref.url)
    /\ Trusted(Last.pre._component_ref.url.s)
    /\ Len(oob_subpath(origin_path_of(Last.pre._component_ref.url.s))) > 63
    /\ COMPONENT_PATH_LABEL_KEY \in DOMAIN task.pod_labels
    /\ Len(task.pod_labels[COMPONENT_PATH_LABEL_KEY]) \in 1..62

\* C7: applying the transformer returned by add_pod_labels(config) a second
\* time leaves task.pod_labels as the first application left it.
C7_Idempotent ==
    (/\ Len(hist) >= 2
     /\ PodLabelsApplied
     /\ hist[Len(hist) - 1].op = "add_pod_labels"
     /\ hist[Len(hist) - 1].arg = Last.arg)
        => task.pod_labels = Last.pre.pod_labels

\* The same config has been applied twice, and its first application added
\* a label.
C7_Witness ==
    /\ Len(hist) >= 2
    /\ PodLabelsApplied
    /\ hist[Len(hist) - 1].op = "add_pod_labels"
    /\ hist[Len(hist) - 1].arg = Last.arg
    /\ hist[Len(hist) - 1].pre.pod_labels # Last.pre.pod_labels

\* C8 as stated: no transformer raises; with unmet preconditions each call
\* returns the task.  That includes the transformer from add_pod_labels()
\* built with its default labels.
C8_NoFailureMode == raised = FALSE

\* C9: over any sequence of applications no key of task.pod_labels is
\* removed, and a present value changes only for component_origin_path and
\* component_digest, by the origin-derived injector.
C9_LabelsOnlyGrow ==
    \A i \in 1..Len(hist) :
        LET pre == hist[i].pre.pod_labels
            post == IF i = Len(hist) THEN task.pod_labels
                    ELSE hist[i + 1].pre.pod_labels
        IN  /\ DOMAIN pre \subseteq DOMAIN post
            /\ DOMAIN hist[1].pre.pod_labels \subseteq DOMAIN post
            /\ \A k \in DOMAIN pre :
                  post[k] # pre[k] =>
                      /\ k \in {COMPONENT_PATH_LABEL_KEY,
                                COMPONENT_DIGEST_LABEL_KEY}
                      /\ hist[i].op = "add_name_for_oob_components"

\* After a static injector added component_origin_path, the origin-derived
\* injector has overwritten it.
C9_Witness ==
    /\ Len(hist) >= 2
    /\ OobApplied
    /\ hist[Len(hist) - 1].op = "add_pod_labels"
    /\ COMPONENT_PATH_LABEL_KEY \notin DOMAIN hist[Len(hist) - 1].pre.pod_labels
    /\ COMPONENT_PATH_LABEL_KEY \in DOMAIN Last.pre.pod_labels
    /\ task.pod_labels[COMPONENT_PATH_LABEL_KEY]
           # Last.pre.pod_labels[COMPONENT_PATH_LABEL_KEY]

\* C10: the static injector followed by the origin-derived injector gives
\* the same pod_labels as the origin-derived injector followed by the static
\* injector.
C10_Commute ==
    (Len(hist) = 2 /\ Len(twin_hist) = 2) => task.pod_labels = twin.pod_labels

\* Both orders are complete for a config holding the component_origin_path
\* key on a task on which the origin-derived injector sets that label.
C10_Witness ==
    /\ Len(hist) = 2
    /\ Len(twin_hist) = 2
    /\ COMPONENT_PATH_LABEL_KEY \in Keys(labels.items)
    /\ COMPONENT_PATH_LABEL_KEY \notin DOMAIN hist[1].pre.pod_labels
    /\ task.pod_labels # hist[2].pre.pod_labels
    /\ twin.pod_labels # twin_hist[2].pre.pod_labels
    /\ task.pod_labels[COMPONENT_PATH_LABEL_KEY] # <<"x">>

====
